---- MODULE Spec2Model ----
(***************************************************************************)
(* Model of scripts/script.py: StreamScraper (session set-up, the          *)
(* retry-wrapped per-link extraction with its poll loop, process_match,    *)
(* cleanup) and main.  The program is single-threaded; pc is its control   *)
(* point.  Strings (URLs, header values) are sequences of tokens, so that  *)
(* the substring tests and urlparse() are computed rather than assumed.    *)
(***************************************************************************)
EXTENDS Integers, Sequences, FiniteSets, TLC

\* ------------------------------------------------------------- bounds
MaxMatches == 2
MaxLinks == 2
MaxHar == 2
MaxPolls == 1
MaxStall == 30
MaxFaults == 3
MaxHeaders == 2

\* -------------------------------------------------- program constants
timeout == 30
PollInterval == 1
ProbeTimeout == 5
max_tries == 3
max_time == 30
proxy_max_tries == 3
StatusOK == 200

\* ------------------------------------------------------------ helpers
Max(a, b) == IF a >= b THEN a ELSE b
Min(a, b) == IF a <= b THEN a ELSE b
Range(s) == {s[i] : i \in 1..Len(s)}
SeqsUpTo(S, n) == UNION {[1..k -> S] : k \in 0..n}

\* The empty string: falsy in Python's `or`.
EmptyStr == <<>>

\* ------------------------------------------------------- input domain
Keys == {"competition", "match", "links"}
\* The link URLs of the input, as <<scheme, netloc, path>>.
LinkList == <<
    <<"https", "a.tv", "/one">>,
    <<"https", "b.tv", "/two">>,
    <<"http", "c.tv", "/three">> >>
MatchNames == << <<"m1">>, <<"m2">>, <<"m3">> >>
LinkSeqs == {SubSeq(LinkList, 1, k) : k \in 0..MaxLinks}
KeySets == {Keys} \cup {Keys \ {k} : k \in Keys}

\* One element of the input's "matches" list: a dict with the keys K.
MkMatch(K, ls, i) ==
    [k \in K |-> CASE k = "competition" -> <<"cup">>
                   [] k = "match" -> MatchNames[i]
                   [] OTHER -> ls]

MatchShapes == {<<K, ls>> \in KeySets \X LinkSeqs : "links" \in K \/ ls = <<>>}

RECURSIVE SumLen(_)
SumLen(shapes) ==
    IF shapes = <<>> THEN 0 ELSE Len(Head(shapes)[2]) + SumLen(Tail(shapes))

\* The inputs of n matches that hold at most MaxLinks links in all.
InputsOfLen(n) ==
    {[i \in 1..n |-> MkMatch(sh[i][1], sh[i][2], i)] :
        sh \in {x \in [1..n -> MatchShapes] : SumLen(x) <= MaxLinks}}

Inputs == UNION {InputsOfLen(n) : n \in 0..MaxMatches}

\* ------------------------------------------------- captured requests
MonoUrl == <<"https", "cdn.tv", "/x/", "mono.m3u8">>
PlaylistUrl == <<"https", "cdn.tv", "/y/", "playlist.m3u8", "?t=1">>
PageUrl == <<"https", "a.tv", "/index.html">>
RefValue == <<"https", "embed.tv", "/player">>
OrgValue == <<"https", "embed.tv">>

\* HAR entries the proxy can record (entry['request'], entry['response']).
EntryMono ==
    [url |-> MonoUrl,
     reqHeaders |-> <<[name |-> "Referer", value |-> RefValue]>>,
     respHeaders |-> <<>>,
     status |-> 200]
EntryPlaylist ==
    [url |-> PlaylistUrl,
     reqHeaders |-> <<>>,
     respHeaders |-> <<[name |-> "origin", value |-> OrgValue]>>,
     status |-> 200]
EntryPage ==
    [url |-> PageUrl,
     reqHeaders |-> <<[name |-> "referer", value |-> EmptyStr]>>,
     respHeaders |-> <<>>,
     status |-> 200]
EntryPool == {EntryMono, EntryPlaylist, EntryPage}

\* What a HEAD probe can do: answer with a status code (redirects are not
\* followed by requests.head), or fail with an exception (connection
\* failure, timeout, protocol error, malformed URL).
StatusOutcome(c) == [kind |-> "status", code |-> c]
ProbeError == [kind |-> "error", code |-> 0]
ProbeOutcomes == {StatusOutcome(c) : c \in {200, 204, 301, 404}} \cup {ProbeError}
\* The probes of whole runs: success, a refusal and a failure.
RunProbes == {StatusOutcome(200), StatusOutcome(404), ProbeError}
\* No probe was made.
NoProbe == [kind |-> "none", code |-> 0]

\* ------------------------------------------------------ pure functions
\* Mutant of Lower: names are compared as they are written.
LowerIdentity(n) == n

\* str.lower() on the header names that occur.
Lower(n) ==
    CASE n = "Referer" -> "referer"
      [] n = "REFERER" -> "referer"
      [] n = "Origin" -> "origin"
      [] n = "ORIGIN" -> "origin"
      [] OTHER -> n

\* Optional[str]: None, or a string.
None == [some |-> FALSE, v |-> EmptyStr]
Some(s) == [some |-> TRUE, v |-> s]
\* Python truthiness of an Optional[str]: None and "" are falsy.
Truthy(x) == x.some /\ x.v # EmptyStr

\* StreamScraper._get_header_value: the value of the first header whose
\* lower-cased name equals the lower-cased target, else None.
RECURSIVE _get_header_value(_, _)
_get_header_value(headers, target_header) ==
    IF headers = <<>> THEN None
    ELSE IF Lower(Head(headers).name) = Lower(target_header)
         THEN Some(Head(headers).value)
         ELSE _get_header_value(Tail(headers), target_header)

\* a or b or c, with c a plain string.
OrChain(a, b, c) == IF Truthy(a) THEN a.v ELSE IF Truthy(b) THEN b.v ELSE c

\* f"{urlparse(link).scheme}://{urlparse(link).netloc}"
LinkOrigin(link) == <<link[1], link[2]>>

ResolveReferer(entry, link) ==
    OrChain(_get_header_value(entry.reqHeaders, "Referer"),
            _get_header_value(entry.respHeaders, "Referer"),
            link)

ResolveOrigin(entry, link) ==
    OrChain(_get_header_value(entry.reqHeaders, "Origin"),
            _get_header_value(entry.respHeaders, "Origin"),
            LinkOrigin(link))

\* pattern in request_url (substring test on the tokenised URL).
Contains(url, pattern) == \E i \in 1..Len(url) : url[i] = pattern

\* "mono.m3u8" in request_url or "playlist.m3u8" in request_url
Qualifies(request_url) ==
    Contains(request_url, "mono.m3u8") \/ Contains(request_url, "playlist.m3u8")

\* Mutant of validate_m3u8_url: every 2xx status counts.
validate_any_success(outcome) ==
    outcome.kind = "status" /\ outcome.code \in 200..299

\* Mutant of validate_m3u8_url: the status code is not looked at.
validate_any_response(outcome) == outcome.kind = "status"

\* StreamScraper.validate_m3u8_url, given what the HEAD request did:
\* a response (status_code == 200 decides) or an exception (False).
validate_m3u8_url(outcome) ==
    IF outcome.kind = "status" THEN outcome.code = StatusOK ELSE FALSE

\* The dict appended to streams for a validated entry.
StreamData(entry, link) ==
    [url |-> entry.url,
     referrer |-> ResolveReferer(entry, link),
     origin |-> ResolveOrigin(entry, link),
     source_link |-> link]

\* The probe validate_m3u8_url issues for an entry: URL plus stream_headers.
ProbeOf(entry, link) ==
    [url |-> entry.url,
     Referer |-> ResolveReferer(entry, link),
     Origin |-> ResolveOrigin(entry, link)]

\* -------------------------------------------------------------- state
VARIABLES
    input,            \* json.loads(...)["matches"] of the input file
    pc,               \* control point of the program
    exc,              \* the exception in flight ("none" when there is none)
    server,           \* self.server: "none", or its Server's state: "new", "up", "stopped"
    proxy,            \* self.proxy is set
    driver,           \* self.driver is set
    leaked,           \* running proxy servers that self.server no longer refers to
    browserUp,        \* the browser process is running
    ptries,           \* tries made by setup_proxy's retry wrapper
    mi,               \* index of the match being processed (0 before)
    li,               \* index of the link being processed within the match
    all_streams,      \* process_match's accumulator
    updated_matches,  \* main's list of records
    tries,            \* tries made by extract_stream_data's retry wrapper
    elapsed,          \* the wrapper's elapsed time, read when a try starts
    now,              \* the clock, counted from the wrapper's start
    start_time,       \* the poll loop's start_time
    polls,            \* sleeps made by the current attempt's poll loop
    har,              \* the proxy's capture (har['log']['entries']) as last read
    hidx,             \* position of the scan in har
    streams,          \* the attempt's local list
    probe,            \* history: what the probe of the latest loop iteration did
    output,           \* the output document (<<>> while unwritten)
    writes,           \* number of times the output file was written
    validated,        \* history: probes that were answered with status 200
    called,           \* history: matches for which process_match was called
    setupFailed,      \* history: __enter__ raised
    bodyRuns,         \* history: executions of the body in this wrapper call
    lastEnd,          \* history: how the latest attempt ended
    outcomes,         \* history: how each link of the current match ended
    dropped,          \* history: the matches whose processing raised
    faults            \* history: failures the environment has injected

vars == <<input, pc, exc, server, proxy, driver, leaked, browserUp, ptries,
          mi, li, all_streams, updated_matches, tries, elapsed, now,
          start_time, polls, har, hidx, streams, probe, output, writes, validated,
          called, setupFailed, bodyRuns, lastEnd, outcomes, dropped, faults>>

sessionVars == <<server, proxy, driver, leaked, browserUp, ptries, setupFailed>>
matchVars == <<mi, li, all_streams, updated_matches, called, outcomes, dropped>>
linkVars == <<mi, li, updated_matches, called, outcomes, dropped>>
retryVars == <<tries, elapsed, bodyRuns, lastEnd>>
pollVars == <<start_time, polls, har, hidx, streams, probe>>
outVars == <<output, writes>>

InitWith(inputs) ==
    /\ input \in inputs
    /\ pc = "main"
    /\ exc = "none"
    /\ server = "none"
    /\ proxy = FALSE
    /\ driver = FALSE
    /\ leaked = 0
    /\ browserUp = FALSE
    /\ ptries = 0
    /\ mi = 0
    /\ li = 0
    /\ all_streams = <<>>
    /\ updated_matches = <<>>
    /\ tries = 0
    /\ elapsed = 0
    /\ now = 0
    /\ start_time = 0
    /\ polls = 0
    /\ har = <<>>
    /\ hidx = 0
    /\ streams = <<>>
    /\ probe = NoProbe
    /\ output = <<>>
    /\ writes = 0
    /\ validated = {}
    /\ called = {}
    /\ setupFailed = FALSE
    /\ bodyRuns = 0
    /\ lastEnd = "none"
    /\ outcomes = <<>>
    /\ dropped = {}
    /\ faults = 0

Init == InitWith(Inputs)

\* Mutant of LinkExceptPc: a link's exception leaves process_match.
LinkExceptEscapes == "handler"

\* ---------------------------------------------------- main, set-up
CurMatch == input[mi]
\* What process_match held when it raised: the match, the links it had
\* finished and the streams it had accumulated.
Dropped == [index |-> mi, done |-> li, streams |-> all_streams]
\* Where an exception of extract_stream_data lands: process_match's except
\* clause logs it and the for loop goes on.
LinkExceptPc == "link_loop"
HasKey(m, k) == k \in DOMAIN m

\* The environment makes a call fail (at most env.maxFaults times in a run).
Fault(env) == faults < env.maxFaults /\ faults' = faults + 1
NoFault == faults' = faults

\* Mutant of EnterFailurePc: the failure is swallowed and the loop runs.
EnterFailureSwallowed == "match_loop"

\* Where an exception raised by __enter__ lands: the with statement does not
\* call __exit__, so it reaches main's except clause directly.
EnterFailurePc == "fatal"

\* main: open and parse the input file, updated_matches = [].
ReadInput(env) ==
    /\ pc = "main"
    /\ \/ pc' = "setup_proxy" /\ exc' = exc /\ NoFault
       \/ pc' = "fatal" /\ exc' = "input" /\ Fault(env)
    /\ UNCHANGED <<input, sessionVars, matchVars, retryVars, now, pollVars,
                   outVars, validated>>

\* self.server = Server(...): a running server that self.server referred to
\* is referred to no longer.
Rebind(srv, n) == IF srv = "up" THEN n + 1 ELSE n

\* One try of setup_proxy under backoff.on_exception(max_tries=3): the path
\* check, Server(...), server.start(), server.create_proxy().
SetupProxy(env) ==
    /\ pc = "setup_proxy"
    /\ \/ /\ server' = "up"
          /\ leaked' = Rebind(server, leaked)
          /\ proxy' = TRUE
          /\ ptries' = 0
          /\ pc' = "setup_driver"
          /\ NoFault
          /\ UNCHANGED <<exc, setupFailed>>
       \/ /\ \E outcome \in {"nopath", "startfail", "createfail"} :
               /\ server' = CASE outcome = "nopath" -> server
                              [] outcome = "startfail" -> "new"
                              [] OTHER -> "up"
               /\ leaked' = IF outcome = "nopath" THEN leaked
                            ELSE Rebind(server, leaked)
          /\ proxy' = proxy
          /\ Fault(env)
          /\ IF ptries + 1 = proxy_max_tries
             THEN /\ pc' = EnterFailurePc
                  /\ exc' = "setup"
                  /\ setupFailed' = TRUE
                  /\ ptries' = 0
             ELSE /\ ptries' = ptries + 1
                  /\ UNCHANGED <<pc, exc, setupFailed>>
    /\ UNCHANGED <<input, driver, browserUp, matchVars, retryVars, now,
                   pollVars, outVars, validated>>

\* setup_driver: the path check and webdriver.Chrome(...).
SetupDriver(env) ==
    /\ pc = "setup_driver"
    /\ \/ /\ driver' = TRUE
          /\ browserUp' = TRUE
          /\ pc' = "match_loop"
          /\ NoFault
          /\ UNCHANGED <<exc, setupFailed>>
       \/ /\ pc' = EnterFailurePc
          /\ exc' = "setup"
          /\ setupFailed' = TRUE
          /\ Fault(env)
          /\ UNCHANGED <<driver, browserUp>>
    /\ UNCHANGED <<input, server, proxy, leaked, ptries, matchVars,
                   retryVars, now, pollVars, outVars, validated>>

\* for match in matches: the next match is handed to process_match
\* (all_streams = []), or the loop ends and the with block is left.
NextMatch ==
    /\ pc = "match_loop"
    /\ IF mi < Len(input)
       THEN /\ mi' = mi + 1
            /\ called' = called \cup {mi + 1}
            /\ all_streams' = <<>>
            /\ li' = 0
            /\ outcomes' = <<>>
            /\ pc' = "pm_links"
       ELSE /\ pc' = "cleanup_quit"
            /\ UNCHANGED <<mi, called, all_streams, li, outcomes>>
    /\ UNCHANGED <<input, exc, sessionVars, updated_matches, dropped,
                   retryVars, now, pollVars, outVars, validated, faults>>

\* process_match, line 182: match['links'] is evaluated outside the try.
ProcessMatchLinks ==
    /\ pc = "pm_links"
    /\ IF HasKey(CurMatch, "links")
       THEN pc' = "link_loop" /\ dropped' = dropped
       ELSE pc' = "handler" /\ dropped' = dropped \cup {Dropped}
    /\ UNCHANGED <<input, exc, sessionVars, mi, li, all_streams,
                   updated_matches, called, outcomes, retryVars, now,
                   pollVars, outVars, validated, faults>>

\* for link in match['links']: the call's arguments are evaluated inside the
\* try, so a missing 'match' key is caught per link; otherwise the retry
\* wrapper starts (its clock starts at 0).
NextLink ==
    /\ pc = "link_loop"
    /\ IF li < Len(CurMatch.links)
       THEN /\ li' = li + 1
            /\ IF HasKey(CurMatch, "match")
               THEN pc' = "attempt" /\ outcomes' = outcomes
               ELSE pc' = LinkExceptPc /\ outcomes' = Append(outcomes, "raised")
            /\ tries' = 0
            /\ elapsed' = 0
            /\ now' = 0
            /\ bodyRuns' = 0
            /\ lastEnd' = "none"
       ELSE /\ pc' = "pm_record"
            /\ UNCHANGED <<li, outcomes, retryVars, now>>
    /\ UNCHANGED <<input, exc, sessionVars, mi, all_streams, updated_matches,
                   called, dropped, pollVars, outVars, validated, faults>>

\* ------------------------------------- extract_stream_data and its retry
CurLink == CurMatch.links[li]

\* The attempt's locals go out of scope; the proxy keeps its capture.
DropLocals ==
    /\ start_time' = 0
    /\ polls' = 0
    /\ har' = har
    /\ hidx' = 0
    /\ streams' = <<>>
    /\ probe' = NoProbe

\* Mutant of Extend: the new streams are put in front.
Prepend(acc, ss) == ss \o acc

\* all_streams.extend(streams)
Extend(acc, ss) == acc \o ss

\* Mutant of Salvaged: the list of an attempt that raised is still merged.
SalvagedAll(ss) == ss

\* What process_match receives from an attempt that raised: the assignment
\* of line 184 does not happen, so nothing of the attempt's list.
Salvaged(ss) == <<>>

\* An exception leaves the body of extract_stream_data.
RaiseFromBody(env) ==
    /\ pc' = "on_exc"
    /\ lastEnd' = "raised"
    /\ all_streams' = Extend(all_streams, Salvaged(streams))
    /\ DropLocals
    /\ Fault(env)

\* The capture scope an entry is recorded in: the attempt that started it.
CaptureScope == <<mi, li, bodyRuns>>
\* An entry of the pool as recorded in the current capture scope.
Recorded(e) ==
    [url |-> e.url, reqHeaders |-> e.reqHeaders, respHeaders |-> e.respHeaders,
     status |-> e.status, scope |-> CaptureScope]

\* Mutant of FreshHar: the earlier entries stay in the capture.
KeptHar(entries) == entries

\* self.proxy.new_har(...): a new, empty capture replaces the earlier one.
FreshHar(entries) == <<>>

\* backoff: a try starts (tries += 1, elapsed is read), and the body runs
\* up to self.proxy.new_har(...), which starts a fresh capture or raises.
NewHar(env) ==
    /\ pc = "attempt"
    /\ tries' = tries + 1
    /\ elapsed' = now
    /\ bodyRuns' = bodyRuns + 1
    /\ \/ /\ pc' = "inject"
          /\ har' = FreshHar(har)
          /\ lastEnd' = "running"
          /\ NoFault
          /\ UNCHANGED <<all_streams, start_time, polls, hidx, streams, probe>>
       \/ RaiseFromBody(env)
    /\ UNCHANGED <<input, exc, sessionVars, linkVars, now, outVars, validated>>

\* self.driver.execute_script(...)
Inject(env) ==
    /\ pc = "inject"
    /\ \/ pc' = "get" /\ NoFault /\ UNCHANGED <<all_streams, lastEnd, pollVars>>
       \/ RaiseFromBody(env)
    /\ UNCHANGED <<input, exc, sessionVars, linkVars, tries, elapsed,
                   bodyRuns, now, outVars, validated>>

\* self.driver.get(link), then start_time = time.time(), streams = [].
\* A failing navigation raises after blocking for some time in env.stalls.
Get(env) ==
    /\ pc = "get"
    /\ \/ /\ pc' = "poll_test"
          /\ start_time' = now
          /\ streams' = <<>>
          /\ polls' = 0
          /\ NoFault
          /\ UNCHANGED <<all_streams, now, lastEnd, har, hidx, probe>>
       \/ \E d \in env.stalls :
          /\ now' = now + d
          /\ RaiseFromBody(env)
    /\ UNCHANGED <<input, exc, sessionVars, linkVars, tries, elapsed,
                   bodyRuns, outVars, validated>>

\* Mutant of LoopCondition: the deadline itself still starts an iteration.
LoopConditionInclusive(t, t0) == t - t0 <= timeout

\* while time.time() - start_time < timeout
LoopCondition(t, t0) == t - t0 < timeout

PollTest ==
    /\ pc = "poll_test"
    /\ pc' = IF LoopCondition(now, start_time) THEN "read_har" ELSE "ret"
    /\ UNCHANGED <<input, exc, sessionVars, matchVars, retryVars, now,
                   pollVars, outVars, validated, faults>>

\* self.proxy.har['log']['entries']: the entries recorded so far, those that
\* arrived since the last read included (requests the pages make, from
\* env.pool), or an exception when env.harFails allows.
ReadHar(env) ==
    /\ pc = "read_har"
    /\ \/ \E new \in SeqsUpTo(env.pool, MaxHar - Len(har)) :
          /\ har' = har \o [i \in 1..Len(new) |-> Recorded(new[i])]
          /\ hidx' = 1
          /\ pc' = "scan"
          /\ NoFault
          /\ UNCHANGED <<all_streams, lastEnd, start_time, polls, streams, probe>>
       \/ /\ env.harFails
          /\ RaiseFromBody(env)
    /\ UNCHANGED <<input, exc, sessionVars, linkVars, tries, elapsed,
                   bodyRuns, now, outVars, validated>>

\* One iteration of for entry in ...: a qualifying entry is probed with its
\* resolved headers (the probe takes some time in env.probeTimes) and appended
\* when validate_m3u8_url returns True; or, when env.harFails allows, the
\* entry lacks a key the body reads (lines 133-138) and KeyError is raised.
ScanEntry(env) ==
    /\ pc = "scan"
    /\ hidx <= Len(har)
    /\ \/ /\ LET entry == har[hidx] IN
             IF Qualifies(entry.url)
             THEN \E outcome \in env.probes, d \in env.probeTimes :
                  /\ now' = now + d
                  /\ probe' = outcome
                  /\ IF validate_m3u8_url(outcome)
                     THEN streams' = Append(streams, StreamData(entry, CurLink))
                     ELSE streams' = streams
                  /\ IF outcome.kind = "status" /\ outcome.code = 200
                     THEN validated' = validated \cup {ProbeOf(entry, CurLink)}
                     ELSE validated' = validated
             ELSE probe' = NoProbe /\ UNCHANGED <<now, streams, validated>>
          /\ hidx' = hidx + 1
          /\ UNCHANGED <<pc, all_streams, lastEnd, start_time, polls, har, faults>>
       \/ /\ env.harFails
          /\ RaiseFromBody(env)
          /\ UNCHANGED <<now, validated>>
    /\ UNCHANGED <<input, exc, sessionVars, linkVars, tries, elapsed,
                   bodyRuns, outVars>>

\* Mutant of StopPolling: the loop never breaks.
NeverStop(ss) == FALSE

\* if streams: (a non-empty list is truthy)
StopPolling(ss) == ss # <<>>

\* After the for loop: if streams: break
AfterScan ==
    /\ pc = "scan"
    /\ hidx > Len(har)
    /\ pc' = IF StopPolling(streams) THEN "ret" ELSE "sleep"
    /\ probe' = NoProbe
    /\ UNCHANGED <<input, exc, sessionVars, matchVars, retryVars, now,
                   start_time, polls, har, hidx, streams, outVars, validated,
                   faults>>

\* time.sleep(1).  The first env.sleepCap sleeps of an attempt last exactly the
\* poll interval; a later one overruns to the loop's deadline.
Sleep(env) ==
    /\ pc = "sleep"
    /\ now' = IF polls < env.sleepCap
              THEN now + PollInterval
              ELSE Max(now + PollInterval, start_time + timeout)
    /\ polls' = polls + 1
    /\ pc' = "poll_test"
    /\ UNCHANGED <<input, exc, sessionVars, matchVars, retryVars,
                   start_time, har, hidx, streams, probe, outVars, validated,
                   faults>>

\* return streams; the wrapper returns it and process_match extends
\* all_streams with it.
Return ==
    /\ pc = "ret"
    /\ all_streams' = Extend(all_streams, streams)
    /\ lastEnd' = "returned"
    /\ outcomes' = Append(outcomes, "returned")
    /\ pc' = "link_loop"
    /\ DropLocals
    /\ UNCHANGED <<input, exc, sessionVars, mi, li, updated_matches, called,
                   dropped, tries, elapsed, bodyRuns, now, outVars, validated,
                   faults>>

\* Mutant of GiveUp: one try more than max_tries.
GiveUpLate(t, e) == t = max_tries + 1 \/ e >= max_time

\* backoff's give-up test after the body raised.
GiveUp(t, e) == t = max_tries \/ e >= max_time

\* backoff.expo: 1, 2, 4, ... for the 1st, 2nd, 3rd wait.
Expo(t) == 2 ^ (t - 1)

\* backoff's except branch: give up and re-raise (process_match's except
\* logs it and the for loop goes on), or sleep
\* min(jitter(expo), max_time - elapsed) and try again.
OnException(env) ==
    /\ pc = "on_exc"
    /\ IF GiveUp(tries, elapsed)
       THEN /\ pc' = LinkExceptPc
            /\ outcomes' = Append(outcomes, "raised")
            /\ now' = now
       ELSE /\ pc' = "attempt"
            /\ outcomes' = outcomes
            /\ \E w \in {Min(j, Expo(tries)) : j \in env.jitters} :
                now' = now + Min(w, max_time - elapsed)
    /\ UNCHANGED <<input, exc, sessionVars, mi, li, all_streams,
                   updated_matches, called, dropped, retryVars, pollVars,
                   outVars, validated, faults>>

\* ------------------------------------------- process_match's result, main
\* asdict(StreamData(...)); last_updated (a timestamp) is left out.
Record(m, ss) ==
    [competition |-> m.competition,
     match |-> m.match,
     links |-> m.links,
     streams |-> ss]

\* process_match, lines 189-195, builds the record (KeyError when
\* 'competition' or 'match' is missing); main appends it.
ReturnRecord ==
    /\ pc = "pm_record"
    /\ IF HasKey(CurMatch, "competition") /\ HasKey(CurMatch, "match")
       THEN /\ updated_matches' = Append(updated_matches, Record(CurMatch, all_streams))
            /\ dropped' = dropped
            /\ pc' = "match_loop"
       ELSE /\ updated_matches' = updated_matches
            /\ dropped' = dropped \cup {Dropped}
            /\ pc' = "handler"
    /\ UNCHANGED <<input, exc, sessionVars, mi, li, all_streams, called,
                   outcomes, retryVars, now, pollVars, outVars, validated,
                   faults>>

\* main's except clause for one match: the log message evaluates
\* match['match'], so a match without that key raises out of the handler,
\* out of the for loop and into __exit__.
Handler ==
    /\ pc = "handler"
    /\ IF HasKey(CurMatch, "match")
       THEN pc' = "match_loop" /\ exc' = exc
       ELSE pc' = "cleanup_quit" /\ exc' = "KeyError"
    /\ UNCHANGED <<input, sessionVars, matchVars, retryVars, now, pollVars,
                   outVars, validated, faults>>

\* __exit__ -> cleanup: if self.driver: self.driver.quit()
CleanupQuit(env) ==
    /\ pc = "cleanup_quit"
    /\ IF driver
       THEN \/ browserUp' = FALSE /\ pc' = "cleanup_stop" /\ exc' = exc /\ NoFault
            \/ browserUp' = browserUp /\ pc' = "fatal" /\ exc' = "cleanup" /\ Fault(env)
       ELSE pc' = "cleanup_stop" /\ NoFault /\ UNCHANGED <<browserUp, exc>>
    /\ UNCHANGED <<input, server, proxy, driver, leaked, ptries, setupFailed,
                   matchVars, retryVars, now, pollVars, outVars, validated>>

\* Where control goes when __exit__ returns None: on to the code after the
\* with block, or, with an exception in flight, to main's except clause.
AfterExit(e) == IF e = "none" THEN "write" ELSE "fatal"

\* cleanup: if self.server: self.server.stop()
CleanupStop(env) ==
    /\ pc = "cleanup_stop"
    /\ IF server # "none"
       THEN \/ /\ server' = "stopped"
               /\ pc' = AfterExit(exc)
               /\ exc' = exc
               /\ NoFault
            \/ /\ server' = server
               /\ pc' = "fatal"
               /\ exc' = "cleanup"
               /\ Fault(env)
       ELSE /\ pc' = AfterExit(exc)
            /\ NoFault
            /\ UNCHANGED <<server, exc>>
    /\ UNCHANGED <<input, proxy, driver, leaked, browserUp, ptries,
                   setupFailed, matchVars, retryVars, now, pollVars, outVars,
                   validated>>

\* Mutant of MatchesWithStreams: every record is counted.
CountAllRecords(ms) == Len(ms)

\* sum(1 for m in updated_matches if m['streams'])
MatchesWithStreams(ms) == Cardinality({i \in 1..Len(ms) : ms[i].streams # <<>>})

\* success_rate as the fraction <<numerator, denominator>>; 0 is <<0, 1>>.
SuccessRate(ms) ==
    IF Len(ms) > 0 THEN <<MatchesWithStreams(ms), Len(ms)>> ELSE <<0, 1>>

OutputData(ms) ==
    [matches |-> ms,
     metadata |-> [total_matches |-> Len(ms),
                   matches_with_streams |-> MatchesWithStreams(ms),
                   success_rate |-> SuccessRate(ms)]]

\* main, lines 227-246: the metrics and json.dump to the output file.
WriteOutput ==
    /\ pc = "write"
    /\ output' = OutputData(updated_matches)
    /\ writes' = writes + 1
    /\ pc' = "done"
    /\ UNCHANGED <<input, exc, sessionVars, matchVars, retryVars, now,
                   pollVars, validated, faults>>

\* main's outer except: log and re-raise.
Fatal ==
    /\ pc = "fatal"
    /\ pc' = "raised"
    /\ UNCHANGED <<input, exc, sessionVars, matchVars, retryVars, now,
                   pollVars, outVars, validated, faults>>

\* ----------------------------------------------------- specifications
\* A step of the program in an environment env: the requests pages make
\* (pool), whether reading the capture can fail (harFails), how long a probe
\* (probeTimes) and a failing navigation (stalls) can take, the jitter of
\* the retry waits (jitters), how many sleeps of an attempt are exact
\* (sleepCap) and how many calls can fail in a run (maxFaults).
Step(env) ==
    \/ ReadInput(env)
    \/ SetupProxy(env)
    \/ SetupDriver(env)
    \/ NextMatch
    \/ ProcessMatchLinks
    \/ NextLink
    \/ NewHar(env)
    \/ Inject(env)
    \/ Get(env)
    \/ PollTest
    \/ ReadHar(env)
    \/ ScanEntry(env)
    \/ AfterScan
    \/ Sleep(env)
    \/ Return
    \/ OnException(env)
    \/ ReturnRecord
    \/ Handler
    \/ CleanupQuit(env)
    \/ CleanupStop(env)
    \/ WriteOutput
    \/ Fatal

\* Whole runs over every input of up to MaxMatches matches holding up to
\* MaxLinks links: every call that can fail does, up to MaxFaults times;
\* after MaxPolls exact sleeps a sleep overruns to the deadline.
RunEnv ==
    [pool |-> {EntryMono},
     probes |-> RunProbes,
     harFails |-> TRUE,
     probeTimes |-> {1},
     stalls |-> {0, MaxStall},
     jitters |-> {0},
     sleepCap |-> MaxPolls,
     maxFaults |-> MaxFaults]

Next == Step(RunEnv)

Spec == Init /\ [][Next]_vars

\* Runs over one match of at most one link, with the clock exact: every
\* sleep lasts the poll interval, a probe takes from one unit up to its
\* timeout, and the pages make every kind of request.
LinkInputs ==
    {in \in InputsOfLen(1) : HasKey(in[1], "links") => Len(in[1].links) <= 1}

LinkEnv ==
    [pool |-> EntryPool,
     probes |-> RunProbes,
     harFails |-> FALSE,
     probeTimes |-> {1, ProbeTimeout},
     stalls |-> {0},
     jitters |-> {0},
     sleepCap |-> timeout,
     maxFaults |-> 1]

InitLink == InitWith(LinkInputs)

NextLinkLevel == Step(LinkEnv)

SpecLink == InitLink /\ [][NextLinkLevel]_vars

\* The program is sequential: whenever it has a next statement it runs it.
FairSpecLink == SpecLink /\ WF_vars(NextLinkLevel)

\* Whole runs in which a page makes both kinds of qualifying request: one
\* call can fail in a run, and every sleep overruns to the deadline.
OrderEnv ==
    [pool |-> {EntryMono, EntryPlaylist},
     probes |-> RunProbes,
     harFails |-> FALSE,
     probeTimes |-> {1},
     stalls |-> {0},
     jitters |-> {0},
     sleepCap |-> 0,
     maxFaults |-> 1]

NextOrder == Step(OrderEnv)

SpecOrder == Init /\ [][NextOrder]_vars

\* One iteration of the for loop over the capture, for every captured
\* request with up to MaxHeaders request and response headers and every
\* outcome of its probe.
HeaderNames == {"Referer", "referer", "Origin", "ORIGIN"}
HeadersWith(values) == {[name |-> n, value |-> v] : n \in HeaderNames, v \in values}
ScanEntries ==
    {[url |-> MonoUrl, reqHeaders |-> rq, respHeaders |-> rs, status |-> 200,
      scope |-> <<1, 1, 1>>] :
        rq \in SeqsUpTo(HeadersWith({RefValue, EmptyStr}), MaxHeaders),
        rs \in SeqsUpTo(HeadersWith({OrgValue, EmptyStr}), MaxHeaders)}

ScanEnv ==
    [pool |-> {},
     probes |-> ProbeOutcomes,
     harFails |-> FALSE,
     probeTimes |-> {1},
     stalls |-> {0},
     jitters |-> {0},
     sleepCap |-> timeout,
     maxFaults |-> 0]

\* The program at line 132, about to look at the one entry of the capture
\* of the first attempt for the only link of the only match.
InitScan ==
    /\ input \in {<<MkMatch(Keys, <<LinkList[k]>>, 1)>> : k \in {1, 3}}
    /\ har \in {<<e>> : e \in ScanEntries}
    /\ pc = "scan"
    /\ hidx = 1
    /\ exc = "none"
    /\ server = "up"
    /\ proxy = TRUE
    /\ driver = TRUE
    /\ leaked = 0
    /\ browserUp = TRUE
    /\ ptries = 0
    /\ mi = 1
    /\ li = 1
    /\ all_streams = <<>>
    /\ updated_matches = <<>>
    /\ tries = 1
    /\ elapsed = 0
    /\ now = 0
    /\ start_time = 0
    /\ polls = 0
    /\ streams = <<>>
    /\ probe = NoProbe
    /\ output = <<>>
    /\ writes = 0
    /\ validated = {}
    /\ called = {1}
    /\ setupFailed = FALSE
    /\ bodyRuns = 1
    /\ lastEnd = "running"
    /\ outcomes = <<>>
    /\ dropped = {}
    /\ faults = 0

NextScan == ScanEntry(ScanEnv) \/ AfterScan

SpecScan == InitScan /\ [][NextScan]_vars

\* ------------------------------------------------------------ claims
Terminated == pc \in {"done", "raised"}

\* The probe that validate_m3u8_url answered True to for a stream.
ProbeFor(st) == [url |-> st.url, Referer |-> st.referrer, Origin |-> st.origin]
AllValidated(ss) == \A i \in 1..Len(ss) : ProbeFor(ss[i]) \in validated
RecordsValidated(ms) == \A k \in 1..Len(ms) : AllValidated(ms[k].streams)

\* C1: every stream held by an attempt's list, by process_match's
\* all_streams, by a record of updated_matches or by a record of the
\* written output document was appended after its probe (that URL with the
\* referer and origin resolved for it) was answered with status 200.
C1_StreamsValidated ==
    /\ AllValidated(streams)
    /\ AllValidated(all_streams)
    /\ RecordsValidated(updated_matches)
    /\ writes > 0 => RecordsValidated(output.matches)

\* C1 witness: a written document holds a stream, while another probe of
\* the same run was refused and left nothing.
C1_Witness ==
    /\ writes > 0
    /\ Len(output.matches) = 2
    /\ output.matches[1].streams = <<>>
    /\ input[1].links # <<>>
    /\ output.matches[2].streams # <<>>

\* C2: once session set-up has failed, process_match has been called for
\* no match, the output document has not been written, and the run is in
\* main's except clause or has re-raised from it.
C2_SetupFailureAborts ==
    setupFailed => /\ called = {}
                   /\ writes = 0
                   /\ pc \in {"fatal", "raised"}
                   /\ exc = "setup"

\* C2 witness: set-up failed and main has re-raised.
C2_Witness == setupFailed /\ pc = "raised"

\* C3 (as claimed): when main ends after a failed set-up, no proxy server
\* that was started is still running and no browser is.
C3_SetupAbortReleases ==
    (Terminated /\ setupFailed) => (server # "up" /\ leaked = 0 /\ ~browserUp)

HasRecordKeys(m) == HasKey(m, "competition") /\ HasKey(m, "match")

\* C4: a link whose extraction raises for the last time is caught inside
\* process_match: the step that records the raise leaves all_streams as it
\* was and goes back to the for loop; the links are taken one at a time in
\* order and the record is built only when every link has ended (returned
\* or raised); process_match is left by an exception only where it
\* evaluates the match's keys (lines 182 and 189-195) and one is missing,
\* never from a link's extraction; and at line 189 a match that has its keys gets its record,
\* holding all_streams, whatever its links did.
C4_LinkFailureContained ==
    /\ [](pc \in {"link_loop", "pm_record"} => Len(outcomes) = li)
    /\ [](pc = "pm_record" => li = Len(CurMatch.links))
    /\ [][Len(outcomes') > Len(outcomes) =>
            /\ outcomes' = Append(outcomes, outcomes'[Len(outcomes')])
            /\ pc' = "link_loop"
            /\ outcomes'[Len(outcomes')] = "raised" =>
                 (all_streams' = all_streams /\ mi' = mi)]_vars
    /\ [][li' # li => (li' = li + 1 \/ (li' = 0 /\ pc = "match_loop"))]_vars
    /\ [][pc' = "handler" =>
            /\ pc \in {"pm_links", "pm_record"}
            /\ ~(HasKey(CurMatch, "links") /\ HasRecordKeys(CurMatch))]_vars
    /\ [][(pc = "pm_record" /\ HasRecordKeys(CurMatch)) =>
            /\ updated_matches' =
                 Append(updated_matches, Record(CurMatch, all_streams))
            /\ pc' = "match_loop"]_vars

\* C4 witness: the first link returned a stream, the second raised on its
\* third try, and the match's record holds the first link's stream.
C4_Witness ==
    /\ pc = "match_loop"
    /\ outcomes = <<"returned", "raised">>
    /\ bodyRuns = max_tries
    /\ updated_matches # <<>>
    /\ updated_matches[Len(updated_matches)].streams # <<>>

\* C5 (as claimed): when process_match raised for a match, the run still
\* calls process_match for every match of the input and ends normally.
C5_MatchFailureContained ==
    (Terminated /\ dropped # {} /\ exc # "cleanup") =>
        (pc = "done" /\ called = 1..Len(input))

\* C6 (as claimed): when process_match raised for a match after some of
\* its links had ended, the written document holds a record for that match
\* (its links) with the streams accumulated up to the exception.
C6_PartialRecordKept ==
    writes > 0 =>
        \A d \in dropped :
            d.done > 0 =>
                \E k \in 1..Len(output.matches) :
                    /\ output.matches[k].links = input[d.index].links
                    /\ output.matches[k].streams = d.streams

\* C7 (as claimed): the document is written at most once and only after
\* process_match was called for every match, and a run whose session set-up
\* succeeded (and whose cleanup did not fail) ends with it written once.
C7_WrittenExactlyOnce ==
    /\ writes <= 1
    /\ writes > 0 => called = 1..Len(input)
    /\ (Terminated /\ driver /\ exc # "cleanup") => writes = 1

\* C8: for every link the body of extract_stream_data starts at most
\* max_tries (3) times, a start follows only the wrapper's entry or a body
\* that raised, and after a body returned (with or without streams) no
\* further body starts for that link.
C8_AtMostThreeAttempts ==
    /\ [](bodyRuns <= max_tries)
    /\ [][bodyRuns' > bodyRuns =>
            (bodyRuns' = bodyRuns + 1 /\ lastEnd \in {"none", "raised"})]_vars
    /\ [][lastEnd = "returned" =>
            (bodyRuns' = bodyRuns \/ (bodyRuns' = 0 /\ lastEnd' = "none"))]_vars

\* C8 witness: two bodies raised, the third returned an empty list, and
\* process_match is back at its for loop.
C8_Witness ==
    /\ pc = "link_loop"
    /\ bodyRuns = max_tries
    /\ lastEnd = "returned"
    /\ outcomes # <<>>
    /\ outcomes[Len(outcomes)] = "returned"
    /\ all_streams = <<>>

\* The captured requests whose URL qualifies, in arrival order.
QualifyingEntries(entries) == SelectSeq(entries, LAMBDA e : Qualifies(e.url))
NumQualifying(entries) == Len(QualifyingEntries(entries))
UrlsOf(ss) == [i \in 1..Len(ss) |-> ss[i].url]
\* A sequence with the later occurrences of every element removed.
RECURSIVE Distinct(_)
Distinct(q) ==
    IF q = <<>> THEN <<>>
    ELSE LET front == Distinct(SubSeq(q, 1, Len(q) - 1))
             last == q[Len(q)]
         IN IF last \in Range(front) THEN front ELSE Append(front, last)

\* Every probe of the attempt succeeded: the list is returned from the
\* first poll iteration with one stream per qualifying request, or no
\* request qualified at all.
AllProbesSucceeded ==
    /\ Len(streams) = NumQualifying(har)
    /\ polls = 0 \/ NumQualifying(har) = 0

\* C9 (as claimed): when every probe succeeded, the URLs of the returned
\* streams are the qualifying URLs of the capture in arrival order, each
\* distinct URL once.
C9_DistinctQualifyingInOrder ==
    (pc = "ret" /\ AllProbesSucceeded) =>
        UrlsOf(streams) = Distinct(UrlsOf(QualifyingEntries(har)))

\* The poll loop of an attempt is running.
InPollLoop == pc \in {"poll_test", "read_har", "scan", "sleep"}

RECURSIVE NonEmptyRecords(_)
NonEmptyRecords(ms) ==
    IF ms = <<>> THEN 0
    ELSE (IF Head(ms).streams # <<>> THEN 1 ELSE 0) + NonEmptyRecords(Tail(ms))

\* C11: in every written document total_matches is the number of records,
\* matches_with_streams is the number of records with a non-empty stream
\* list, 0 <= matches_with_streams <= total_matches, and success_rate (a
\* fraction <<numerator, denominator>>) is 0 when total_matches is 0, is
\* matches_with_streams / total_matches otherwise, and lies in [0, 1].
C11_MetadataConsistent ==
    writes > 0 =>
        LET md == output.metadata
            rate == md.success_rate
        IN /\ md.total_matches = Len(output.matches)
           /\ md.matches_with_streams = NonEmptyRecords(output.matches)
           /\ 0 <= md.matches_with_streams
           /\ md.matches_with_streams <= md.total_matches
           /\ rate[2] > 0
           /\ 0 <= rate[1] /\ rate[1] <= rate[2]
           /\ md.total_matches = 0 => rate[1] = 0
           /\ md.total_matches > 0 =>
                  rate[1] * md.total_matches = md.matches_with_streams * rate[2]
           /\ input = <<>> => (output.matches = <<>> /\ rate[1] = 0)

\* C11 witness: a document of two records, one of them with streams.
C11_Witness ==
    /\ writes > 0
    /\ output.metadata.total_matches = 2
    /\ output.metadata.matches_with_streams = 1
    /\ output.metadata.success_rate = <<1, 2>>

\* The position of a link in a list of links (the first, if it repeats).
LinkPos(links, link) ==
    CHOOSE i \in 1..Len(links) :
        links[i] = link /\ \A j \in 1..(i - 1) : links[j] # link
\* The position in the input of the match a record was built from.
MatchPos(rec) ==
    CHOOSE i \in 1..Len(input) :
        HasKey(input[i], "match") /\ input[i].match = rec.match
\* The streams of a record follow the order of the record's links.
LinksInOrder(rec) ==
    \A i, j \in 1..Len(rec.streams) :
        /\ \E k \in 1..Len(rec.links) : rec.links[k] = rec.streams[i].source_link
        /\ i < j => LinkPos(rec.links, rec.streams[i].source_link)
                        <= LinkPos(rec.links, rec.streams[j].source_link)
\* The records follow the order of the input's matches.
RecordsInOrder(ms) ==
    /\ \A k \in 1..Len(ms) : LinksInOrder(ms[k])
    /\ \A k1, k2 \in 1..Len(ms) : k1 < k2 => MatchPos(ms[k1]) < MatchPos(ms[k2])
\* q is p with some elements left out.
RECURSIVE IsSubseq(_, _)
IsSubseq(q, p) ==
    IF q = <<>> THEN TRUE
    ELSE IF p = <<>> THEN FALSE
    ELSE IF Head(q) = Head(p) THEN IsSubseq(Tail(q), Tail(p))
    ELSE IsSubseq(q, Tail(p))
\* The stream of every qualifying entry for the current link, in arrival order.
CandidateStreams(entries) ==
    LET q == QualifyingEntries(entries)
    IN [i \in 1..Len(q) |-> StreamData(q[i], CurLink)]

\* C12: in every record (of updated_matches and of the written document)
\* the streams follow the order of the record's links, and the records
\* follow the order of the input's matches; the streams of one attempt are
\* in the arrival order of their requests; and a returned list is appended
\* as it is, after what the earlier links gave.
C12_InputOrderKept ==
    /\ [](RecordsInOrder(updated_matches))
    /\ [](writes > 0 => RecordsInOrder(output.matches))
    /\ [](pc \in {"scan", "ret"} => IsSubseq(streams, CandidateStreams(har)))
    /\ [][all_streams' # all_streams =>
            \/ pc = "match_loop" /\ all_streams' = <<>>
            \/ pc = "ret" /\ all_streams' = all_streams \o streams]_vars
    /\ [][updated_matches' # updated_matches =>
            /\ Len(updated_matches') = Len(updated_matches) + 1
            /\ SubSeq(updated_matches', 1, Len(updated_matches)) = updated_matches
            /\ updated_matches'[Len(updated_matches')].streams = all_streams]_vars

\* C12 witness: a written record holds two streams of the first link, in
\* arrival order, followed by a stream of the second link.
C12_Witness ==
    /\ writes > 0
    /\ Len(output.matches) = 1
    /\ Len(output.matches[1].streams) = 3
    /\ output.matches[1].streams[1].url = MonoUrl
    /\ output.matches[1].streams[2].url = PlaylistUrl
    /\ output.matches[1].streams[2].source_link = LinkList[1]
    /\ output.matches[1].streams[3].source_link = LinkList[2]

\* The spellings under which a header name is the same name.
CaseVariants(name) ==
    CASE name = "Referer" -> {"Referer", "referer", "REFERER"}
      [] name = "Origin" -> {"Origin", "origin", "ORIGIN"}
      [] OTHER -> {name}
\* The case-insensitive lookup of a name in a header list: the value of
\* the first header of that name, empty when there is none.
Lookup(headers, name) ==
    LET I == {i \in 1..Len(headers) : headers[i].name \in CaseVariants(name)}
    IN IF I = {} THEN EmptyStr
       ELSE headers[CHOOSE i \in I : \A j \in I : i <= j].value
\* The first populated (non-empty) value of a chain whose last is a default.
FirstPopulated(chain) ==
    IF chain[1] # EmptyStr THEN chain[1]
    ELSE IF chain[2] # EmptyStr THEN chain[2] ELSE chain[3]
ExpectedReferrer(entry, link) ==
    FirstPopulated(<<Lookup(entry.reqHeaders, "Referer"),
                     Lookup(entry.respHeaders, "Referer"),
                     link>>)
ExpectedOrigin(entry, link) ==
    FirstPopulated(<<Lookup(entry.reqHeaders, "Origin"),
                     Lookup(entry.respHeaders, "Origin"),
                     <<link[1], link[2]>> >>)
\* The capture's only entry has been looked at.
ScannedOne == pc = "scan" /\ Len(har) = 1 /\ hidx = 2
Names(headers) == {headers[i].name : i \in 1..Len(headers)}

\* C13: the referrer and the origin of a stream, and the Referer and
\* Origin sent with its probe, are each the first populated value among
\* the case-insensitive lookup in the request headers, that in the
\* response headers, and the default (the link; scheme and host of the
\* link); they are the defaults when no header of the name is captured, and
\* they are never empty.
C13_HeaderChain ==
    (ScannedOne /\ streams # <<>>) =>
        LET e == har[1]
            st == streams[1]
        IN /\ st.referrer = ExpectedReferrer(e, CurLink)
           /\ st.origin = ExpectedOrigin(e, CurLink)
           /\ [url |-> e.url, Referer |-> ExpectedReferrer(e, CurLink),
               Origin |-> ExpectedOrigin(e, CurLink)] \in validated
           /\ (Names(e.reqHeaders) \cup Names(e.respHeaders))
                  \cap CaseVariants("Referer") = {} => st.referrer = CurLink
           /\ (Names(e.reqHeaders) \cup Names(e.respHeaders))
                  \cap CaseVariants("Origin") = {} =>
                  st.origin = <<CurLink[1], CurLink[2]>>
           /\ st.referrer # EmptyStr
           /\ st.origin # EmptyStr

\* C13 witness: the request carries an empty referer (lower case), the
\* response an ORIGIN (upper case) and a Referer: the referrer comes from
\* the response, the origin from the response, for an http link.
C13_Witness ==
    /\ ScannedOne
    /\ streams # <<>>
    /\ CurLink = LinkList[3]
    /\ har[1].reqHeaders = <<[name |-> "referer", value |-> EmptyStr]>>
    /\ har[1].respHeaders = <<[name |-> "ORIGIN", value |-> OrgValue],
                              [name |-> "Referer", value |-> OrgValue]>>
    /\ streams[1].referrer = OrgValue
    /\ streams[1].origin = OrgValue

\* C14 (as claimed): a probe answered with a success status (2xx) makes
\* validate_m3u8_url return True, so the candidate is appended.
C14_EverySuccessStatusValid ==
    (ScannedOne /\ probe.kind = "status" /\ probe.code \in 200..299) =>
        streams # <<>>

\* C14 (amended): validate_m3u8_url returns a boolean for every outcome of
\* the probe, a failure included, and the loop goes on after it; it
\* returns True exactly when the probe was answered with status 200.
C14_ValidOnlyFor200 ==
    /\ [](probe # NoProbe => validate_m3u8_url(probe) \in BOOLEAN)
    /\ [](ScannedOne =>
            /\ probe # NoProbe
            /\ streams # <<>> <=> (probe.kind = "status" /\ probe.code = 200))
    /\ [][probe' # NoProbe => (pc' = "scan" /\ exc' = "none")]_vars

\* C14 witness: a probe answered 204, a success status, left no stream.
C14_Witness ==
    /\ ScannedOne
    /\ probe = StatusOutcome(204)
    /\ streams = <<>>

StreamKeys == {"url", "referrer", "origin", "source_link", "response_status"}

\* C15 (as claimed): every stream of every record carries url, referrer,
\* origin, source_link and response_status, its source_link is a link of
\* the record and its response_status is the captured response's status.
C15_StreamFieldsComplete ==
    \A k \in 1..Len(updated_matches) :
        \A i \in 1..Len(updated_matches[k].streams) :
            LET st == updated_matches[k].streams[i]
            IN /\ DOMAIN st = StreamKeys
               /\ st.source_link \in Range(updated_matches[k].links)
               /\ st.response_status = EntryMono.status

\* The attempt is polling the capture again after a completed scan.
PollingAgain == pc = "sleep" \/ (pc \in {"poll_test", "read_har"} /\ polls > 0)

\* C16 (as claimed): once candidates of the capture have been probed
\* (validation has begun) the attempt does not go back to polling, so a
\* scan that is followed by more polling probed no candidate, and no
\* candidate is probed by two scans of one attempt.
C16_PhasesNotReentered == PollingAgain => NumQualifying(har) = 0

\* An attempt of extract_stream_data is past its new_har call.
InAttempt == pc \in {"inject", "get", "poll_test", "read_har", "scan", "sleep", "ret"}

\* C17: driver.get is reached only from the attempt's own new_har (by way
\* of the script injection), which leaves the capture empty, on first
\* tries and retries alike; every entry of the capture an attempt scans
\* was recorded in the capture scope that attempt started; every stream of
\* the attempt's list has the attempt's link as source_link, and
\* all_streams holds only streams of the links processed so far.
C17_FreshCapturePerNavigation ==
    /\ [][pc' = "inject" =>
            (pc = "attempt" /\ har' = <<>> /\ bodyRuns' = bodyRuns + 1)]_vars
    /\ [][pc' = "get" => (pc = "inject" /\ UNCHANGED <<mi, li, bodyRuns>>)]_vars
    /\ [](pc \in {"inject", "get"} => har = <<>>)
    /\ [](InAttempt => \A i \in 1..Len(har) : har[i].scope = CaptureScope)
    /\ [](InAttempt => \A i \in 1..Len(streams) : streams[i].source_link = CurLink)
    /\ [](\A i \in 1..Len(all_streams) :
            \E k \in 1..li : all_streams[i].source_link = CurMatch.links[k])

\* C17 witness: the second try for the second link returns a stream
\* scanned from the capture that try started, after the first link gave a
\* stream of its own.
C17_Witness ==
    /\ pc = "ret"
    /\ li = 2
    /\ bodyRuns = 2
    /\ all_streams # <<>>
    /\ streams # <<>>
    /\ har[1].scope = <<1, 2, 2>>
    /\ streams[1].source_link = LinkList[2]

\* C18: while the attempt polls, its list is empty; a scan appends the
\* stream of an entry exactly when the entry qualifies and its probe is
\* answered 200; the scan is left only at its end, to the return when the
\* list is non-empty and to the sleep otherwise; the capture is not read
\* between the scan and the return, and the list returned is the one
\* merged; a list returned empty is returned at the timeout.
C18_StopsAtFirstValidatedScan ==
    /\ [](pc \in {"poll_test", "read_har", "sleep"} => streams = <<>>)
    /\ [][(pc = "scan" /\ pc' = "scan") =>
            /\ hidx' = hidx + 1
            /\ probe' # NoProbe <=> Qualifies(har[hidx].url)
            /\ streams' = IF probe' = StatusOutcome(200)
                          THEN Append(streams, StreamData(har[hidx], CurLink))
                          ELSE streams]_vars
    /\ [][(pc = "scan" /\ pc' \notin {"scan", "on_exc"}) =>
            /\ hidx > Len(har)
            /\ pc' = IF streams # <<>> THEN "ret" ELSE "sleep"
            /\ streams' = streams]_vars
    /\ [][har' # har => pc \in {"attempt", "read_har"}]_vars
    /\ [][pc = "ret" => (all_streams' = all_streams \o streams /\ pc' = "link_loop")]_vars
    /\ [](pc = "ret" =>
            /\ IsSubseq(streams, CandidateStreams(har))
            /\ streams # <<>> => hidx = Len(har) + 1
            /\ streams = <<>> => now - start_time >= timeout)

\* C18 witness: the second scan returns the one stream that validated; the
\* request captured before it was probed and refused in that scan.
C18_Witness ==
    /\ pc = "ret"
    /\ polls = 1
    /\ Len(har) = 2
    /\ har[1].url = MonoUrl
    /\ Len(streams) = 1
    /\ streams[1].url = PlaylistUrl

\* The streams of ss whose source_link is link.
StreamsOf(ss, link) == SelectSeq(ss, LAMBDA st : st.source_link = link)

\* C19: an exception leaving the body discards the attempt's list and
\* leaves all_streams as it was; a try starts with an empty list;
\* all_streams changes only when process_match starts (emptied) or when an
\* attempt returns, by appending that attempt's whole list, which ends the
\* link; so a link that ended by raising has no stream in all_streams.
C19_FailedAttemptsDiscarded ==
    /\ [][pc' = "on_exc" =>
            (streams' = <<>> /\ all_streams' = all_streams /\ lastEnd' = "raised")]_vars
    /\ [](pc \in {"attempt", "on_exc", "inject", "get"} => streams = <<>>)
    /\ [][all_streams' # all_streams =>
            \/ pc = "match_loop" /\ all_streams' = <<>>
            \/ /\ pc = "ret"
               /\ all_streams' = all_streams \o streams
               /\ lastEnd' = "returned"
               /\ outcomes' = Append(outcomes, "returned")
               /\ pc' = "link_loop"]_vars
    /\ [](\A k \in 1..Len(outcomes) :
            outcomes[k] = "raised" => StreamsOf(all_streams, CurMatch.links[k]) = <<>>)
    /\ [](pc = "link_loop" => Len(outcomes) = li)

\* C19 witness: a link ended by raising on its third try although a probe
\* of one of its tries had validated a stream; nothing of it was merged.
C19_Witness ==
    /\ pc = "link_loop"
    /\ outcomes = <<"raised">>
    /\ bodyRuns = max_tries
    /\ validated # {}
    /\ all_streams = <<>>

\* The browser is quit and no proxy server this run started is running.
Released == ~browserUp /\ server # "up" /\ leaked = 0

\* C20 (as claimed): a run whose session set-up succeeded ends with the
\* browser quit and every proxy server it started stopped, and the
\* document is written only after both were released.
C20_CleanupReleasesBoth ==
    /\ (Terminated /\ driver) => Released
    /\ writes > 0 => Released

====
